---- MODULE Spec2Model ----
(***************************************************************************)
(* GloSpot measurement pipeline: the push-up repetition counter            *)
(* (pushup_detection/pushup_processor.py) and the standing-height          *)
(* aggregation (height_detection/height_processor.py), each modelled as    *)
(* the state machine of one processor instance whose process_video is      *)
(* called on videos, frame after frame; the vertical-jump workflow         *)
(* (vertical_jump/vertical_jump_processor.py), the landmark filter of      *)
(* vertical_jump/handlers.py and the upload handlers of api_server.py.     *)
(***************************************************************************)
EXTENDS Integers, Sequences, FiniteSets, TLC

(***************************************************************************)
(* Bounds of the model.                                                    *)
(***************************************************************************)
\* Longest push-up video, in decoded frames.
MaxFrames == 7
\* Longest height video, in decoded frames.
MaxHeightFrames == 25
\* Longest height video of the long-video specification.
MaxLongFrames == 40
\* Longest videos of the sampling specification.
MaxSamplePushupFrames == 3
MaxSampleHeightFrames == 11
\* Longest height video of the calibration specification.
MaxCalibFrames == 6
\* Calls of calibrate_with_reference_image on one instance.
MaxCalibrations == 3
\* Calls of VerticalJumpProcessor.process_video on one instance.
MaxJumpCalls == 3

(***************************************************************************)
(* PushupProcessor                                                         *)
(***************************************************************************)
\* pushup_processor.py:79, `if angle > 160`
UpAngle == 160
\* pushup_processor.py:81, `if angle < 70 and self.position == 'UP'`
DownAngle == 70

\* A decoded frame as the counter logic sees it: either the landmark access
\* of line 62 fails (results.pose_landmarks is None, the except branch of
\* line 86 runs), or the two elbow angles of lines 75-76 are computed.  The
\* angles are whole degrees in 0..180 (calculate_angle folds into [0,180]).
NoLandmarks == <<>>

\* <<left elbow angle, right elbow angle>>: averages 69.5, 70, 160, 160.5,
\* that is just below the low threshold, on it, on the high one, just above.
ArmPairs == { <<69, 70>>, <<70, 70>>, <<160, 160>>, <<160, 161>> }

PushupFrames == {NoLandmarks} \cup ArmPairs

VARIABLES
    pushup_pc,      \* "idle" | "loop" | "done" | "raised": where process_video is
    counter,        \* self.counter
    position,       \* self.position
    total_frames,   \* self.total_frames
    pushup_result,  \* the dict process_video returned, NoResult before it returns
    stream,         \* history: the frames decoded so far in the current pass
    transitions,    \* history: the UP -> DOWN changes of position in this pass
    dirty           \* history: this call found the fields changed by an earlier one

pushup_vars == <<pushup_pc, counter, position, total_frames, pushup_result,
                 stream, transitions, dirty>>

VARIABLES
    height_pc,            \* "idle" | "loop" | "done": where process_video is
    height_measurements,  \* the local list height_measurements
    frame_count,          \* the local frame_count
    height_result,        \* the dict process_video returned, NoResult before
    sampled               \* history: the frames handed to process_image

height_vars == <<height_pc, height_measurements, frame_count, height_result,
                 sampled>>

VARIABLES
    focal_length,   \* self.focal_length: NoFocal (None) or a ratio num/den
    calib_ok,       \* what the last calibrate_with_reference_image returned
    reference,      \* history: the reference image of the last calibration
    calibrations,   \* history: the calibrate_with_reference_image calls so far
    calib_by,       \* history: "none", or who made the last calibration call:
                    \* "caller" directly, or "process_video"
    capture_tried   \* history: the last process_video call given a reference
                    \* image reached cv2.VideoCapture (line 194)

calib_vars == <<focal_length, calib_ok, reference, calibrations, calib_by,
                capture_tried>>

VARIABLES
    jump_pc,       \* "idle" | "running" | "returned" | "raised"
    jump_args,     \* the jump_style and vid_format of the call
    jump_handler,  \* the CalibrationHandler objects created so far
    jump_log,      \* history: the handler calls of this process_video call
    jump_value,    \* what calculate_vertical_jump returned (hundredths of an inch)
    jump_fault,    \* history: a statement of this call has raised
    jump_result    \* the dict process_video returned, NoResult before

jump_vars == <<jump_pc, jump_args, jump_handler, jump_log, jump_value,
               jump_fault, jump_result>>

VARIABLES
    pose_pc,       \* "new" | "posed" (findPose ran) | "found" (findPosition ran)
    pose_results,  \* self.results.pose_landmarks: NoPose or the landmarks,
                   \* each <<x, y>> normalised, in thousandths
    pose_shape,    \* <<h, w>> of the img handed to findPose and findPosition
    pose_select,   \* lm_conversions: the landmark ids selected
    lm_list        \* the lmList findPosition returned

pose_vars == <<pose_pc, pose_results, pose_shape, pose_select, lm_list>>

VARIABLES
    uploads,   \* the files of UPLOAD_FOLDER: path -> content, NoFile if absent
    req        \* per upload request: where its handler is, what it was sent,
               \* the path it saved to, what its processor opened, its answer

server_vars == <<uploads, req>>

\* What an action of one component leaves alone.
not_pushup_vars == <<height_vars, calib_vars, jump_vars, pose_vars, server_vars>>
not_height_vars == <<pushup_vars, calib_vars, jump_vars, pose_vars, server_vars>>
not_jump_vars == <<pushup_vars, height_vars, calib_vars, pose_vars, server_vars>>
not_pose_vars == <<pushup_vars, height_vars, calib_vars, jump_vars, server_vars>>
not_server_vars == <<pushup_vars, height_vars, calib_vars, jump_vars, pose_vars>>

NoResult == [none |-> TRUE]

\* The three instance fields as one value.
Session == [counter |-> counter, position |-> position,
            total_frames |-> total_frames]

\* __init__, lines 14-16.
NewSession == [counter |-> 0, position |-> "UP", total_frames |-> 0]

\* Twice the averaged angle of lines 75-76: (left + right) / 2 is compared
\* with a threshold t as left + right against 2 * t, so that half degrees
\* stay exact.
Angle2(f) == f[1] + f[2]

ResetOnEntry_KeepCounter(s) == [s EXCEPT !.position = "UP", !.total_frames = 0]

\* process_video, lines 38-40.
ResetOnEntry(s) == [counter |-> 0, position |-> "UP", total_frames |-> 0]

CounterLogic_NoHysteresis(s, angle2) ==
    LET p == IF angle2 >= 2 * UpAngle THEN "UP" ELSE s.position
    IN  IF angle2 <= 2 * DownAngle /\ p = "UP"
        THEN [s EXCEPT !.position = "DOWN", !.counter = @ + 1]
        ELSE [s EXCEPT !.position = p]

CounterLogic_CountEveryLowFrame(s, angle2) ==
    LET p == IF angle2 > 2 * UpAngle THEN "UP" ELSE s.position
    IN  IF angle2 < 2 * DownAngle
        THEN [s EXCEPT !.position = "DOWN", !.counter = @ + 1]
        ELSE [s EXCEPT !.position = p]

CounterLogic_CountOnRise(s, angle2) ==
    IF angle2 > 2 * UpAngle /\ s.position = "DOWN"
    THEN [s EXCEPT !.position = "UP", !.counter = @ + 1]
    ELSE IF angle2 > 2 * UpAngle THEN [s EXCEPT !.position = "UP"]
    ELSE IF angle2 < 2 * DownAngle THEN [s EXCEPT !.position = "DOWN"]
    ELSE s

\* The push-up counter logic, lines 79-84: two independent ifs, the second
\* reading the position the first may just have written.
CounterLogic(s, angle2) ==
    LET p == IF angle2 > 2 * UpAngle THEN "UP" ELSE s.position
    IN  IF angle2 < 2 * DownAngle /\ p = "UP"
        THEN [s EXCEPT !.position = "DOWN", !.counter = @ + 1]
        ELSE [s EXCEPT !.position = p]

ProcessFrame_ResetOnMiss(s, f) ==
    LET s1 == [s EXCEPT !.total_frames = @ + 1]
    IN  IF f = NoLandmarks THEN [s1 EXCEPT !.position = "UP"]
        ELSE CounterLogic(s1, Angle2(f))

\* One iteration of the loop body, lines 47-88: total_frames advances, then
\* the try block either fails at line 62 (nothing else changes) or runs the
\* counter logic on the averaged angle.
ProcessFrame(s, f) ==
    LET s1 == [s EXCEPT !.total_frames = @ + 1]
    IN  IF f = NoLandmarks THEN s1 ELSE CounterLogic(s1, Angle2(f))

PushupResult_CompletedRepsOnly(s) ==
    [counter |-> IF s.position = "DOWN" THEN s.counter - 1 ELSE s.counter,
     position |-> s.position,
     total_frames |-> s.total_frames, mode |-> "standard"]

\* The result dict of lines 92-97.
PushupResult(s) ==
    [counter |-> s.counter, position |-> s.position,
     total_frames |-> s.total_frames, mode |-> "standard"]

SetSession(s) ==
    /\ counter' = s.counter
    /\ position' = s.position
    /\ total_frames' = s.total_frames

\* process_video up to the loop, lines 34-40.  When the capture does not
\* open, line 36 raises before the fields are reset.
PushupOpen(opened) ==
    /\ pushup_pc \in {"idle", "done", "raised"}
    /\ dirty' = (Session # NewSession)
    /\ transitions' = 0
    /\ pushup_result' = NoResult
    /\ stream' = <<>>
    /\ IF opened
       THEN /\ SetSession(ResetOnEntry(Session))
            /\ pushup_pc' = "loop"
       ELSE /\ UNCHANGED <<counter, position, total_frames>>
            /\ pushup_pc' = "raised"
    /\ UNCHANGED not_pushup_vars

\* One pass of the while loop with a decoded frame, lines 42-88.
PushupFrame(f) ==
    /\ pushup_pc = "loop"
    /\ SetSession(ProcessFrame(Session, f))
    /\ stream' = Append(stream, f)
    /\ transitions' = IF position = "UP" /\ ProcessFrame(Session, f).position = "DOWN"
                      THEN transitions + 1 ELSE transitions
    /\ UNCHANGED <<pushup_pc, pushup_result, dirty>>
    /\ UNCHANGED not_pushup_vars

\* End of stream: cap.read() returns ret = False, lines 44-45, then 90-100.
PushupEnd ==
    /\ pushup_pc = "loop"
    /\ pushup_pc' = "done"
    /\ pushup_result' = PushupResult(Session)
    /\ UNCHANGED <<counter, position, total_frames, stream, transitions, dirty>>
    /\ UNCHANGED not_pushup_vars

(***************************************************************************)
(* HeightProcessor                                                         *)
(***************************************************************************)
\* height_processor.py:148, `if height_cm < 120 or height_cm > 220`
MinHeightCm == 120
MaxHeightCm == 220
\* height_processor.py:213, `if frame_count % 5 == 0`
FrameStride == 5
\* height_processor.py:254, `min(100, len(height_measurements) * 15)`
ConfidencePerMeasurement == 15
MaxConfidence == 100

\* A decoded frame as process_image sees it: either no person is found
\* (line 106, or any fault caught at line 164), or the head-to-feet pixel
\* distance d of line 136, as <<d>>.
NoPerson == <<>>

\* Pixel distances whose candidates are 119, 120, 148, 149, 150, 151, 152,
\* 154, 220, 221 and 300 cm.
PixelDistances == {793, 800, 987, 993, 1000, 1007, 1013, 1027, 1467, 1473, 2000}

HeightFrames == {NoPerson} \cup { <<d>> : d \in PixelDistances }

\* The frames of the long videos: no person, 150 cm, 152 cm and 300 cm.
LongHeightFrames == {NoPerson, <<1000>>, <<1013>>, <<2000>>}

\* Python's round() of the non-negative rational num / den: to the nearest
\* integer, a tie to the even one.
RoundHalfEven(num, den) ==
    LET q == num \div den
        r == num % den
    IN  IF 2 * r < den THEN q
        ELSE IF 2 * r > den THEN q + 1
        ELSE IF q % 2 = 0 THEN q ELSE q + 1

\* Line 141: height_cm = round(d * 0.15).
CandidateCm(d) == RoundHalfEven(15 * d, 100)

InRange_NoUpperLimit(h) == ~(h < MinHeightCm)

\* Line 148 negated: the candidate is kept.
InRange(h) == ~(h < MinHeightCm \/ h > MaxHeightCm)

\* process_image, lines 99-171, on one frame: the fields process_video reads.
ProcessImage(f) ==
    IF f = NoPerson
    THEN [success |-> FALSE, height_cm |-> 0]
    ELSE [success |-> TRUE,
          height_cm |-> IF InRange(CandidateCm(f[1])) THEN CandidateCm(f[1])
                        ELSE 0]

Measure_EveryFrame(ms, n, f) ==
    LET result == ProcessImage(f)
    IN  IF result.success /\ result.height_cm > 0
        THEN Append(ms, result.height_cm) ELSE ms

Measure_KeepZeroHeight(ms, n, f) ==
    IF n % FrameStride = 0
    THEN LET result == ProcessImage(f)
         IN  IF result.success
             THEN Append(ms, result.height_cm) ELSE ms
    ELSE ms

\* Lines 213-216 on the frame numbered n (1-based): every 5th frame is
\* measured and the measurement kept when it succeeded with a height > 0.
Measure(ms, n, f) ==
    IF n % FrameStride = 0
    THEN LET result == ProcessImage(f)
         IN  IF result.success /\ result.height_cm > 0
             THEN Append(ms, result.height_cm) ELSE ms
    ELSE ms

\* list.sort(), line 228: the ascending permutation, built by insertion.
RECURSIVE Insert(_, _)
Insert(x, s) ==
    IF s = <<>> THEN <<x>>
    ELSE IF x <= Head(s) THEN <<x>> \o s
    ELSE <<Head(s)>> \o Insert(x, Tail(s))

RECURSIVE Sort(_)
Sort(s) == IF s = <<>> THEN <<>> ELSE Insert(Head(s), Sort(Tail(s)))

RECURSIVE Sum(_)
Sum(s) == IF s = <<>> THEN 0 ELSE Head(s) + Sum(Tail(s))

Median10_UpperMiddle(s) == 10 * s[(Len(s) \div 2) + 1]

\* Lines 229-233 and 239 on the sorted list, in tenths of a centimetre:
\* round(median, 1) of an integer or a half is exact.
Median10(s) ==
    LET n == Len(s)
    IN  IF n % 2 = 0
        THEN 5 * (s[n \div 2] + s[(n \div 2) + 1])
        ELSE 10 * s[(n \div 2) + 1]

\* Lines 236 and 252: round(sum / n, 1), in tenths of a centimetre.
Average10(s) == RoundHalfEven(10 * Sum(s), Len(s))

Confidence_Uncapped(n) == n * ConfidencePerMeasurement

\* Line 254.
Confidence(n) ==
    IF n * ConfidencePerMeasurement < MaxConfidence
    THEN n * ConfidencePerMeasurement ELSE MaxConfidence

HeightFailure(msg) == [success |-> FALSE, error |-> msg, height_cm |-> 0]

\* Lines 220-255: the result of the pass from the measurements kept.
\* height_cm, median_height_cm and average_height_cm are in tenths of a
\* centimetre, height_ft (round(height_cm / 30.48, 1)) in tenths of a foot.
Aggregate(ms) ==
    IF ms = <<>>
    THEN HeightFailure("No valid height measurements found")
    ELSE LET s == Sort(ms)
         IN  [success |-> TRUE,
              height_cm |-> Median10(s),
              height_ft |-> RoundHalfEven(100 * Median10(s), 3048),
              measurements_count |-> Len(s),
              all_measurements |-> s,
              average_height_cm |-> Average10(s),
              median_height_cm |-> Median10(s),
              confidence |-> Confidence(Len(s))]

\* process_video called without a reference image, as the server calls it
\* (api_server.py:179), up to the loop: lines 194-203.
HeightOpen(opened) ==
    /\ height_pc \in {"idle", "done"}
    /\ height_measurements' = <<>>
    /\ frame_count' = 0
    /\ sampled' = <<>>
    /\ IF opened
       THEN /\ height_pc' = "loop"
            /\ height_result' = NoResult
       ELSE /\ height_pc' = "done"
            /\ height_result' = HeightFailure("Could not open video")
    /\ UNCHANGED not_height_vars

\* One pass of the while loop with a decoded frame, lines 205-216.
HeightFrame(f) ==
    /\ height_pc = "loop"
    /\ frame_count' = frame_count + 1
    /\ height_measurements' = Measure(height_measurements, frame_count + 1, f)
    /\ sampled' = IF (frame_count + 1) % FrameStride = 0
                  THEN Append(sampled, f) ELSE sampled
    /\ UNCHANGED <<height_pc, height_result>>
    /\ UNCHANGED not_height_vars

\* End of stream, lines 207-208, then 218-255.
HeightEnd ==
    /\ height_pc = "loop"
    /\ height_pc' = "done"
    /\ height_result' = Aggregate(height_measurements)
    /\ UNCHANGED <<height_measurements, frame_count, sampled>>
    /\ UNCHANGED not_height_vars

HeightInit ==
    /\ height_pc = "idle"
    /\ height_measurements = <<>>
    /\ frame_count = 0
    /\ height_result = NoResult
    /\ sampled = <<>>

(***************************************************************************)
(* HeightProcessor: distance calibration                                   *)
(***************************************************************************)
\* The defaults of known_distance_cm (60.96) and known_face_width_cm (14.3),
\* in hundredths of a centimetre.
KnownDistance == 6096
KnownFaceWidth == 1430

\* self.focal_length before any calibration (None).
NoFocal == <<>>

\* A reference image: whether cv2.imread loads it, and the pixel width
\* _get_face_width finds in it (0: no face).
Unloadable == [loaded |-> FALSE, face_width |-> 0]
NoReference == [loaded |-> FALSE, face_width |-> 1]
ReferenceImages ==
    {Unloadable} \cup {[loaded |-> TRUE, face_width |-> w] : w \in {0, 100, 143}}

\* Line 61: (ref_face_width * known_distance_cm) / known_face_width_cm, kept
\* as the ratio num / den.
FocalLength(w) == [num |-> w * KnownDistance, den |-> KnownFaceWidth]

CalibrateWith_NoFaceCheck(focal, ref) ==
    IF ~ref.loaded
    THEN [ok |-> FALSE, focal_length |-> focal]
    ELSE [ok |-> TRUE, focal_length |-> FocalLength(ref.face_width)]

\* calibrate_with_reference_image, lines 47-67: what it returns and the
\* focal length it leaves.
CalibrateWith(focal, ref) ==
    IF ~ref.loaded
    THEN [ok |-> FALSE, focal_length |-> focal]
    ELSE IF ref.face_width = 0
    THEN [ok |-> FALSE, focal_length |-> focal]
    ELSE [ok |-> TRUE, focal_length |-> FocalLength(ref.face_width)]

\* calibrate_with_reference_image called on its own.
Calibrate(ref) ==
    /\ height_pc \in {"idle", "done"}
    /\ LET c == CalibrateWith(focal_length, ref)
       IN  /\ calib_ok' = c.ok
           /\ focal_length' = c.focal_length
    /\ reference' = ref
    /\ calibrations' = calibrations + 1
    /\ calib_by' = "caller"
    /\ UNCHANGED capture_tried
    /\ UNCHANGED <<height_vars, pushup_vars, jump_vars, pose_vars, server_vars>>

\* process_video called with a reference image, up to the loop: lines
\* 184-203.
HeightCalibratedOpen(ref, opened) ==
    /\ height_pc \in {"idle", "done"}
    /\ LET c == CalibrateWith(focal_length, ref)
       IN  /\ calib_ok' = c.ok
           /\ focal_length' = c.focal_length
           /\ capture_tried' = c.ok
           /\ IF ~c.ok
              THEN /\ height_pc' = "done"
                   /\ height_result' = HeightFailure("Calibration failed")
              ELSE IF opened
              THEN /\ height_pc' = "loop"
                   /\ height_result' = NoResult
              ELSE /\ height_pc' = "done"
                   /\ height_result' = HeightFailure("Could not open video")
    /\ reference' = ref
    /\ calibrations' = calibrations + 1
    /\ calib_by' = "process_video"
    /\ height_measurements' = <<>>
    /\ frame_count' = 0
    /\ sampled' = <<>>
    /\ UNCHANGED <<pushup_vars, jump_vars, pose_vars, server_vars>>

CalibInit ==
    /\ focal_length = NoFocal
    /\ calib_ok = FALSE
    /\ reference = NoReference
    /\ calibrations = 0
    /\ calib_by = "none"
    /\ capture_tried = FALSE

(***************************************************************************)
(* VerticalJumpProcessor                                                   *)
(***************************************************************************)
\* The offsets process_video hands to calibrate_measured_height, lines 52, 57.
NoOffsets == <<0, 0, 0>>

\* The handler calls of process_video in the order of lines 33-69, each with
\* its arguments; jump_style selects the fifth.
JumpWorkflow(style) ==
    << <<"generate_video_points", <<>> >>,
       <<"define_joint_averages", <<>> >>,
       <<"define_stages", <<>> >>,
       <<"get_reference_values", <<>> >>,
       <<IF style = 0 THEN "estimate_head_height" ELSE "estimate_rim_height", <<>> >>,
       <<"calibrate_measured_height", NoOffsets>>,
       <<"calculate_vertical_jump", <<>> >>,
       <<"measure_descent_speed", <<>> >>,
       <<"export_jump_info", <<>> >> >>

\* The values calculate_vertical_jump may return, in hundredths of an inch.
JumpValues == {0, 2450}

OnStepFault_Swallow(pc) == "running"

\* Lines 89-91: a fault of any statement of the try block is logged and
\* raised again.
OnStepFault(pc) == "raised"

\* The result dict of lines 72-84: the fields process_video computes itself,
\* and the handler whose attributes lines 80-83 read.
JumpResult(args, value, handler) ==
    [vertical_jump_inches |-> value,
     jump_style |-> IF args.jump_style = 0 THEN "Ground-based" ELSE "Rim-based",
     video_format |-> IF args.vid_format = 1 THEN "HD (1920x1080)"
                      ELSE "Standard (720x960)",
     handler |-> handler]

\* process_video is called, lines 12-26: a CalibrationHandler is created,
\* which may fail.
JumpCall(style, format, ok) ==
    /\ jump_pc \in {"idle", "returned", "raised"}
    /\ jump_args' = [jump_style |-> style, vid_format |-> format]
    /\ jump_log' = <<>>
    /\ jump_value' = 0
    /\ jump_result' = NoResult
    /\ jump_fault' = ~ok
    /\ IF ok
       THEN jump_handler' = jump_handler + 1 /\ jump_pc' = "running"
       ELSE jump_handler' = jump_handler /\ jump_pc' = OnStepFault(jump_pc)
    /\ UNCHANGED not_jump_vars

\* The next handler call of lines 33-69 on the handler of this call; it
\* completes (calculate_vertical_jump returning value) or raises.
JumpStep(ok, value) ==
    /\ jump_pc = "running"
    /\ Len(jump_log) < Len(JumpWorkflow(jump_args.jump_style))
    /\ LET call == JumpWorkflow(jump_args.jump_style)[Len(jump_log) + 1]
       IN  /\ jump_log' = Append(jump_log, <<jump_handler>> \o call)
           /\ jump_value' = IF ok /\ call[1] = "calculate_vertical_jump"
                            THEN value ELSE jump_value
    /\ jump_pc' = IF ok THEN "running" ELSE OnStepFault(jump_pc)
    /\ jump_fault' = ~ok
    /\ UNCHANGED <<jump_args, jump_handler, jump_result>>
    /\ UNCHANGED not_jump_vars

\* Lines 72-87 after the last handler call: the result dict is built, which
\* may fail (a value that cannot be rounded), and returned.
JumpReturn(ok) ==
    /\ jump_pc = "running"
    /\ Len(jump_log) = Len(JumpWorkflow(jump_args.jump_style))
    /\ IF ok
       THEN /\ jump_pc' = "returned"
            /\ jump_result' = JumpResult(jump_args, jump_value, jump_handler)
       ELSE /\ jump_pc' = OnStepFault(jump_pc)
            /\ jump_result' = jump_result
    /\ jump_fault' = ~ok
    /\ UNCHANGED <<jump_args, jump_handler, jump_log, jump_value>>
    /\ UNCHANGED not_jump_vars

JumpInit ==
    /\ jump_pc = "idle"
    /\ jump_args = [jump_style |-> 0, vid_format |-> 0]
    /\ jump_handler = 0
    /\ jump_log = <<>>
    /\ jump_value = 0
    /\ jump_fault = FALSE
    /\ jump_result = NoResult

(***************************************************************************)
(* PoseHandler                                                             *)
(***************************************************************************)
\* The limits findPosition compares the pixel coordinates with, line 67.
LimitX == 1920
LimitY == 1080

\* self.results.pose_landmarks when no pose was found.
NoPose == <<>>

\* The frame shapes <<h, w>> of the two video formats
\* (vertical_jump_processor.py:79): standard 720x960 and HD 1920x1080.
Shapes == { <<960, 720>>, <<1080, 1920>> }

\* Normalised landmark coordinates in thousandths; MediaPipe also reports
\* landmarks beyond the image, below 0 and above 1.
Normalised == {-100, -1, 0, 500, 1000}
Landmark == Normalised \X Normalised
PoseLandmarks == {NoPose} \cup (Landmark \X Landmark)
LandmarkIds == {0, 1}

\* int(v) of the float num / den: rounds towards zero.
TruncDiv(num, den) ==
    IF num >= 0 THEN num \div den ELSE -((-num) \div den)

\* Line 66: int(lm.x * w), int(lm.y * h).
Pixel(norm, size) == TruncDiv(norm * size, 1000)

\* Line 67.
Accepted(cx, cy) == cx < LimitX /\ cy < LimitY /\ cx > 0 /\ cy > 0

RECURSIVE FindPositionFrom(_, _, _, _)
\* Lines 61-72: the lmList of the landmarks from index i on; landmark ids
\* count from 0.
FindPositionFrom(i, results, shape, select) ==
    IF i > Len(results) THEN <<>>
    ELSE LET cx == Pixel(results[i][1], shape[2])
             cy == Pixel(results[i][2], shape[1])
             rest == FindPositionFrom(i + 1, results, shape, select)
         IN  IF (i - 1) \in select /\ Accepted(cx, cy)
             THEN << <<i - 1, cx, cy>> >> \o rest
             ELSE rest

\* findPose on the next frame: the pose estimator's landmarks are stored,
\* line 48; the list returned for the frame before is no longer in use.
FindPose(shape, landmarks) ==
    /\ pose_results' = landmarks
    /\ pose_shape' = shape
    /\ pose_pc' = "posed"
    /\ pose_select' = {}
    /\ lm_list' = <<>>
    /\ UNCHANGED not_pose_vars

\* findPosition on the frame findPose was given, as get_shoulder_value and
\* its like call it (lines 91-94).
FindPosition(select) ==
    /\ pose_pc \in {"posed", "found"}
    /\ pose_select' = select
    /\ lm_list' = FindPositionFrom(1, pose_results, pose_shape, select)
    /\ pose_pc' = "found"
    /\ UNCHANGED <<pose_results, pose_shape>>
    /\ UNCHANGED not_pose_vars

PoseInit ==
    /\ pose_pc = "new"
    /\ pose_results = NoPose
    /\ pose_shape = <<1080, 1920>>
    /\ pose_select = {}
    /\ lm_list = <<>>

(***************************************************************************)
(* api_server: the upload handlers                                         *)
(***************************************************************************)
\* The requests in flight, each handled by its own thread of the server.
Requests == {"r1", "r2"}

\* The four upload routes, lines 62, 112, 162, 212.
Endpoints == {"squat", "pushup", "height", "vertical_jump"}

\* ALLOWED_EXTENSIONS, line 29.
AllowedExtensions == {"mp4", "mov", "avi", "mkv"}

\* File names as stem and extension; NoName is the empty name.
NoName == [stem |-> "", ext |-> ""]
FileNames ==
    {NoName,
     [stem |-> "jump", ext |-> "mp4"],
     [stem |-> "jump", ext |-> "MP4"],
     [stem |-> "my jump", ext |-> "mp4"],
     [stem |-> "my_jump", ext |-> "mp4"],
     [stem |-> "notes", ext |-> "txt"]}

\* str.lower() on the extensions in use.
Lower(ext) == IF ext = "MP4" THEN "mp4" ELSE ext

\* allowed_file, lines 44-45.
AllowedFile(name) == name.ext # "" /\ Lower(name.ext) \in AllowedExtensions

\* werkzeug's secure_filename on the names in use: white space becomes an
\* underscore, letters, digits, dots and underscores stay.
SecureFilename(name) ==
    [stem |-> IF name.stem = "my jump" THEN "my_jump" ELSE name.stem,
     ext |-> name.ext]

\* What a request uploads: whether it has a 'video' part, the part's file
\* name, and whether the content is a video cv2 can decode.
Uploads == [has_video : BOOLEAN, filename : FileNames, valid : BOOLEAN]

NoFile == [owner |-> "none", valid |-> FALSE]
Paths == {SecureFilename(n) : n \in {m \in FileNames : AllowedFile(m)}}

NewRequest ==
    [pc |-> "idle", endpoint |-> "squat",
     upload |-> [has_video |-> FALSE, filename |-> NoName, valid |-> FALSE],
     path |-> NoName, opened |-> NoFile, status |-> 0]

\* Lines 65-72, 115-122, 165-172, 215-222: the answer 400 of a request
\* that is turned away, 0 for a request that goes on.
Validate(upload) ==
    IF ~upload.has_video THEN 400
    ELSE IF upload.filename = NoName THEN 400
    ELSE IF ~AllowedFile(upload.filename) THEN 400
    ELSE 0

\* Whether processor.process_video(filepath) raises on the file it opened:
\* PushupProcessor when the file cannot be opened (pushup_processor.py:
\* 34-36), HeightProcessor never (height_processor.py:257-263),
\* VerticalJumpProcessor on any fault of its workflow
\* (vertical_jump_processor.py:89-91); SquatProcessor, whose module is
\* imported at line 9, may return or raise.
ProcessRaises(endpoint, file, fault) ==
    CASE endpoint = "pushup" -> file = NoFile \/ ~file.valid
      [] endpoint = "height" -> FALSE
      [] OTHER -> fault

\* The handler up to file.save(filepath), lines 64-75 and their like.
Save(r, endpoint, upload) ==
    /\ req[r].pc = "idle"
    /\ LET status == Validate(upload)
           path == SecureFilename(upload.filename)
       IN  IF status # 0
           THEN /\ req' = [req EXCEPT ![r] =
                      [@ EXCEPT !.pc = "responded", !.endpoint = endpoint,
                                !.upload = upload, !.status = status]]
                /\ UNCHANGED uploads
           ELSE /\ req' = [req EXCEPT ![r] =
                      [@ EXCEPT !.pc = "saved", !.endpoint = endpoint,
                                !.upload = upload, !.path = path]]
                /\ uploads' = [uploads EXCEPT ![path] =
                                  [owner |-> r, valid |-> upload.valid]]
    /\ UNCHANGED not_server_vars

\* processor.process_video(filepath) opens the file at the path, line 79
\* and its like.
Open(r) ==
    /\ req[r].pc = "saved"
    /\ req' = [req EXCEPT ![r] =
                  [@ EXCEPT !.pc = "processing",
                             !.opened = uploads[req[r].path]]]
    /\ UNCHANGED uploads
    /\ UNCHANGED not_server_vars

\* process_video ends: it returns its result, or raises and the handler
\* answers 500 from its except clause, lines 88-90 and their like.
Finish(r, fault) ==
    /\ req[r].pc = "processing"
    /\ req' = [req EXCEPT ![r] =
                  IF ProcessRaises(@.endpoint, @.opened, fault)
                  THEN [@ EXCEPT !.pc = "responded", !.status = 500]
                  ELSE [@ EXCEPT !.pc = "processed"]]
    /\ UNCHANGED uploads
    /\ UNCHANGED not_server_vars

\* os.remove(filepath) and return jsonify(result), lines 82-84 and their
\* like; os.remove raises when the file is gone, and the handler answers 500.
Remove(r) ==
    /\ req[r].pc = "processed"
    /\ IF uploads[req[r].path] = NoFile
       THEN /\ req' = [req EXCEPT ![r] =
                          [@ EXCEPT !.pc = "responded", !.status = 500]]
            /\ UNCHANGED uploads
       ELSE /\ req' = [req EXCEPT ![r] =
                          [@ EXCEPT !.pc = "responded", !.status = 200]]
            /\ uploads' = [uploads EXCEPT ![req[r].path] = NoFile]
    /\ UNCHANGED not_server_vars

ServerInit ==
    /\ uploads = [p \in Paths |-> NoFile]
    /\ req = [r \in Requests |-> NewRequest]

(***************************************************************************)
(* Specifications                                                          *)
(***************************************************************************)
vars == <<pushup_vars, height_vars, calib_vars, jump_vars, pose_vars,
          server_vars>>


PushupInit ==
    /\ pushup_pc = "idle"
    /\ counter = NewSession.counter
    /\ position = NewSession.position
    /\ total_frames = NewSession.total_frames
    /\ pushup_result = NoResult
    /\ stream = <<>>
    /\ transitions = 0
    /\ dirty = FALSE

Init ==
    /\ PushupInit /\ HeightInit /\ CalibInit /\ JumpInit /\ PoseInit
    /\ ServerInit

\* One PushupProcessor instance, called on one video after another.
PushupNext ==
    \/ \E opened \in BOOLEAN : PushupOpen(opened)
    \/ (total_frames < MaxFrames /\ \E f \in PushupFrames : PushupFrame(f))
    \/ PushupEnd

SpecPushup == Init /\ [][PushupNext]_vars

\* One HeightProcessor instance on videos of up to MaxHeightFrames frames.
HeightNext ==
    \/ \E opened \in BOOLEAN : HeightOpen(opened)
    \/ (frame_count < MaxHeightFrames /\ \E f \in HeightFrames : HeightFrame(f))
    \/ HeightEnd

SpecHeight == Init /\ [][HeightNext]_vars

\* The same on longer videos of fewer kinds of frame.
LongHeightNext ==
    \/ \E opened \in BOOLEAN : HeightOpen(opened)
    \/ (frame_count < MaxLongFrames /\ \E f \in LongHeightFrames : HeightFrame(f))
    \/ HeightEnd

SpecHeightLong == Init /\ [][LongHeightNext]_vars

\* A PushupProcessor and a HeightProcessor, each on its own videos, of up
\* to MaxSamplePushupFrames and MaxSampleHeightFrames frames.
SamplingNext ==
    \/ \E opened \in BOOLEAN : PushupOpen(opened)
    \/ (total_frames < MaxSamplePushupFrames
           /\ \E f \in PushupFrames : PushupFrame(f))
    \/ PushupEnd
    \/ \E opened \in BOOLEAN : HeightOpen(opened)
    \/ (frame_count < MaxSampleHeightFrames
           /\ \E f \in LongHeightFrames : HeightFrame(f))
    \/ HeightEnd

SpecSampling == Init /\ [][SamplingNext]_vars

\* One HeightProcessor instance that is calibrated, directly or by
\* process_video, and processes videos of up to MaxCalibFrames frames.
CalibNext ==
    \/ (calibrations < MaxCalibrations
           /\ \E ref \in ReferenceImages : Calibrate(ref))
    \/ (calibrations < MaxCalibrations
           /\ \E ref \in ReferenceImages, opened \in BOOLEAN :
                  HeightCalibratedOpen(ref, opened))
    \/ \E opened \in BOOLEAN : HeightOpen(opened)
    \/ (frame_count < MaxCalibFrames
           /\ \E f \in LongHeightFrames : HeightFrame(f))
    \/ HeightEnd

SpecCalib == Init /\ [][CalibNext]_vars

\* One PoseHandler: findPose on a frame, then findPosition for some joints.
PoseNext ==
    \/ \E shape \in Shapes, landmarks \in PoseLandmarks :
          FindPose(shape, landmarks)
    \/ \E select \in SUBSET LandmarkIds : FindPosition(select)

SpecPose == Init /\ [][PoseNext]_vars

\* The server handling the requests, each in its own thread.
ServerNext ==
    \/ \E r \in Requests, endpoint \in Endpoints, upload \in Uploads :
          Save(r, endpoint, upload)
    \/ \E r \in Requests : Open(r)
    \/ \E r \in Requests, fault \in BOOLEAN : Finish(r, fault)
    \/ \E r \in Requests : Remove(r)

SpecServer == Init /\ [][ServerNext]_vars

\* One VerticalJumpProcessor instance, called up to MaxJumpCalls times.
JumpNext ==
    \/ (jump_handler < MaxJumpCalls
           /\ \E style \in {0, 1}, format \in {0, 1}, ok \in BOOLEAN :
                  JumpCall(style, format, ok))
    \/ \E ok \in BOOLEAN, value \in JumpValues : JumpStep(ok, value)
    \/ \E ok \in BOOLEAN : JumpReturn(ok)

SpecJump == Init /\ [][JumpNext]_vars

(***************************************************************************)
(* The repetition counter: what the claims speak of.                       *)
(***************************************************************************)
HasAngle(f) == f # NoLandmarks
Below70(f) == HasAngle(f) /\ f[1] + f[2] < 2 * 70
Above160(f) == HasAngle(f) /\ f[1] + f[2] > 2 * 160
InBand(f) == HasAngle(f) /\ f[1] + f[2] >= 2 * 70 /\ f[1] + f[2] <= 2 * 160

\* A step of the loop that decoded a frame, and the frame it decoded.
FrameStep == pushup_pc = "loop" /\ Len(stream') = Len(stream) + 1
ThisFrame == stream'[Len(stream')]
\* The call of process_video enters the pass (or raises).
EntryStep == pushup_pc # "loop" /\ pushup_pc' # pushup_pc

\* C1: the counter goes up, by exactly 1 and with position set to DOWN, on a
\* frame if and only if the frame's averaged angle is below 70 while position
\* is UP; no other step of the pass changes it, and the counter returned is
\* the number of UP -> DOWN transitions of the pass.
C1_CounterCountsDownTransitions ==
    /\ [][ /\ FrameStep =>
                IF Below70(ThisFrame) /\ position = "UP"
                THEN counter' = counter + 1 /\ position' = "DOWN"
                ELSE counter' = counter
           /\ (~FrameStep /\ ~EntryStep) => counter' = counter
           /\ (EntryStep /\ pushup_pc' = "loop") => counter' = 0 ]_vars
    /\ [](pushup_pc = "done" => pushup_result.counter = transitions)

\* A pass returned 2 although a below-70 frame directly followed another.
C1_Witness ==
    /\ pushup_pc = "done"
    /\ pushup_result.counter = 2
    /\ \E i \in 1..(Len(stream) - 1) : Below70(stream[i]) /\ Below70(stream[i + 1])

\* C2: a frame whose averaged angle is above 160 leaves position = UP,
\* whatever it was, and the counter as it was.
C2_Above160SetsUp ==
    [][ (FrameStep /\ Above160(ThisFrame)) =>
            (position' = "UP" /\ counter' = counter) ]_vars

\* An above-160 frame was processed in position DOWN.
C2_Witness ==
    /\ Len(stream) >= 2
    /\ Above160(stream[Len(stream)])
    /\ Below70(stream[Len(stream) - 1])
    /\ position = "UP"
    /\ counter = 1

\* C3: a frame whose averaged angle lies in [70, 160], bounds included,
\* changes neither the counter nor the position, from UP as from DOWN; a
\* whole video of such frames returns counter 0.
C3_Hysteresis ==
    /\ [][ (FrameStep /\ InBand(ThisFrame)) =>
               (counter' = counter /\ position' = position) ]_vars
    /\ []( (pushup_pc = "done" /\ \A i \in DOMAIN stream : InBand(stream[i]))
             => pushup_result.counter = 0 )

\* In position DOWN, a frame at exactly 160 and one at exactly 70 went by.
C3_Witness ==
    /\ pushup_pc = "done"
    /\ Len(stream) >= 3
    /\ stream[Len(stream)] = <<70, 70>>
    /\ stream[Len(stream) - 1] = <<160, 160>>
    /\ Below70(stream[Len(stream) - 2])
    /\ pushup_result.position = "DOWN"
    /\ pushup_result.counter = 1

\* The frames of the signal that lie outside the band.
Excursions(str) == SelectSeq(str, LAMBDA f : Below70(f) \/ Above160(f))

\* The signal is made of full cycles: outside the band it starts above 160
\* and it ends above 160, so that every descent below 70 is part of a cycle
\* above-160 -> below-70 -> above-160.
MadeOfFullCycles(str) ==
    LET e == Excursions(str)
    IN  e # <<>> => (Above160(e[1]) /\ Above160(e[Len(e)]))

\* The number of returns from below 70 to above 160.
FullCycles(str) ==
    LET e == Excursions(str)
    IN  Cardinality({ i \in 1..(Len(e) - 1) : Below70(e[i]) /\ Above160(e[i + 1]) })

\* C4: a signal made of exactly N full cycles above-160 -> below-70 ->
\* above-160, with any frames inside the band and any repetition of the
\* below-70 frames in between, returns counter = N.
C4_CounterEqualsFullCycles ==
    (pushup_pc = "done" /\ MadeOfFullCycles(stream))
        => pushup_result.counter = FullCycles(stream)

\* Three full cycles were counted as 3.
C4_Witness ==
    /\ pushup_pc = "done"
    /\ MadeOfFullCycles(stream)
    /\ FullCycles(stream) = 3
    /\ pushup_result.counter = 3

\* C5: a frame without landmarks leaves position and counter as they were,
\* advances total_frames by one and leaves the pass running.
C5_MissingLandmarksSkipped ==
    [][ (FrameStep /\ ThisFrame = NoLandmarks) =>
            /\ counter' = counter
            /\ position' = position
            /\ total_frames' = total_frames + 1
            /\ pushup_pc' = "loop" ]_vars

\* In position DOWN a frame without landmarks went by, then a below-70 frame
\* was processed, and the pass returned 1 with every frame counted.
C5_Witness ==
    /\ pushup_pc = "done"
    /\ Len(stream) = 3
    /\ Below70(stream[1])
    /\ stream[2] = NoLandmarks
    /\ Below70(stream[3])
    /\ pushup_result.counter = 1
    /\ pushup_result.position = "DOWN"
    /\ pushup_result.total_frames = 3

\* The pass over a frame stream on a processor just created.
RECURSIVE FreshRun(_)
FreshRun(str) ==
    IF str = <<>> THEN NewSession
    ELSE ProcessFrame(FreshRun(SubSeq(str, 1, Len(str) - 1)), str[Len(str)])

\* C6: what process_video returns is what a processor just created returns
\* for the same frame stream, also on an instance that processed other
\* videos before, and so two runs on one stream return the same.
C6_ResultDependsOnStreamOnly ==
    /\ pushup_pc = "loop" => Session = FreshRun(stream)
    /\ pushup_pc = "done" => pushup_result = PushupResult(FreshRun(stream))

\* A reused instance, whose fields an earlier video had changed, returned.
C6_Witness ==
    /\ pushup_pc = "done"
    /\ dirty
    /\ pushup_result.counter = 2
    /\ pushup_result.total_frames = 4

(***************************************************************************)
(* The height aggregation: what the claims speak of.                       *)
(***************************************************************************)
\* The candidate of a frame in which a person is found, and whether it lies
\* in the plausible range.
CandidateOf(f) == CandidateCm(f[1])
OutOfRange(f) == f # NoPerson /\ (CandidateOf(f) < 120 \/ CandidateOf(f) > 220)
Survives(f) == f # NoPerson /\ CandidateOf(f) >= 120 /\ CandidateOf(f) <= 220

\* The surviving candidates of the frames handed to process_image, in the
\* order of arrival.
Survivors(frames) ==
    LET kept == SelectSeq(frames, Survives)
    IN  [i \in 1..Len(kept) |-> CandidateOf(kept[i])]

RemoveAt(seq, i) == SubSeq(seq, 1, i - 1) \o SubSeq(seq, i + 1, Len(seq))

\* The measurements the loop keeps of a sequence of measured frames.
RECURSIVE MeasureAll(_)
MeasureAll(frames) ==
    IF frames = <<>> THEN <<>>
    ELSE Measure(MeasureAll(SubSeq(frames, 1, Len(frames) - 1)),
                 FrameStride * Len(frames), frames[Len(frames)])

\* C7: no candidate below 120 or above 220 cm is among the measurements,
\* during the pass and in the result; and the pass returns what it returns
\* for the same measured frames without any one frame whose candidate is out
\* of range (300 cm, say): the same median, mean, count and confidence.
C7_OutliersDiscarded ==
    /\ \A i \in DOMAIN height_measurements :
           height_measurements[i] >= 120 /\ height_measurements[i] <= 220
    /\ (height_pc = "done" /\ height_result.success) =>
           \A i \in DOMAIN height_result.all_measurements :
               /\ height_result.all_measurements[i] >= 120
               /\ height_result.all_measurements[i] <= 220
    /\ height_pc = "done" =>
           \A i \in DOMAIN sampled :
               OutOfRange(sampled[i]) =>
                   height_result = Aggregate(MeasureAll(RemoveAt(sampled, i)))

\* A pass that measured a 300 cm frame between two frames in range returned.
C7_Witness ==
    /\ height_pc = "done"
    /\ height_result.success
    /\ Len(sampled) = 3
    /\ Survives(sampled[1])
    /\ sampled[2] = <<2000>>
    /\ CandidateOf(sampled[2]) = 300
    /\ Survives(sampled[3])
    /\ height_result.measurements_count = 2

\* The k-th smallest of a non-empty sequence of numbers.
KthSmallest(seq, k) ==
    CHOOSE v \in { seq[i] : i \in DOMAIN seq } :
        /\ Cardinality({ i \in DOMAIN seq : seq[i] < v }) < k
        /\ Cardinality({ i \in DOMAIN seq : seq[i] <= v }) >= k

\* Ten times the median of a non-empty sequence of numbers.
MedianTenths(seq) ==
    LET n == Len(seq)
    IN  IF n % 2 = 1 THEN 10 * KthSmallest(seq, (n + 1) \div 2)
        ELSE 5 * (KthSmallest(seq, n \div 2) + KthSmallest(seq, (n \div 2) + 1))

\* C8: with surviving candidates, height_cm and median_height_cm are their
\* median (the middle one of an odd number, the average of the two middle
\* ones of an even number) whatever the order of arrival, and
\* average_height_cm is their mean, to the tenth of a centimetre.
C8_MedianAndMean ==
    (height_pc = "done" /\ Survivors(sampled) # <<>>) =>
        LET c == Survivors(sampled)
            n == Len(c)
        IN  /\ height_result.height_cm = MedianTenths(c)
            /\ height_result.median_height_cm = MedianTenths(c)
            /\ 2 * (n * height_result.average_height_cm - 10 * Sum(c)) <= n
            /\ 2 * (10 * Sum(c) - n * height_result.average_height_cm) <= n
            /\ c = <<150, 152, 148, 151, 149>> => height_result.height_cm = 1500
            /\ c = <<148, 150, 152, 154>> => height_result.height_cm = 1510

\* The candidates 150, 152, 148, 151, 149 arrived in this order: median 150.
C8_Witness ==
    /\ height_pc = "done"
    /\ Survivors(sampled) = <<150, 152, 148, 151, 149>>
    /\ height_result.height_cm = 1500
    /\ height_result.average_height_cm = 1500

\* C9: when no candidate survived, the result is a failure (success false,
\* height_cm 0, an error message) carrying no median and no mean; the result
\* is a success only when at least one candidate survived.
C9_NoMeasurementFails ==
    height_pc = "done" =>
        IF Survivors(sampled) = <<>>
        THEN /\ height_result.success = FALSE
             /\ height_result.height_cm = 0
             /\ DOMAIN height_result = {"success", "error", "height_cm"}
        ELSE /\ height_result.success = TRUE
             /\ height_result.measurements_count = Len(Survivors(sampled))
             /\ height_result.measurements_count >= 1

\* A pass measured frames, none with a surviving candidate, and failed.
C9_Witness ==
    /\ height_pc = "done"
    /\ Len(sampled) = 3
    /\ sampled[1] = NoPerson
    /\ sampled[2] = <<2000>>
    /\ sampled[3] = <<793>>
    /\ CandidateOf(sampled[2]) = 300
    /\ CandidateOf(sampled[3]) = 119
    /\ height_result.success = FALSE

\* C10: on a success, confidence = min(100, 15 * the number of surviving
\* candidates): a multiple of 15 or 100, at least 15, at most 100, and the
\* confidence of the measurements kept so far never goes down during a pass.
C10_Confidence ==
    /\ [](( height_pc = "done" /\ height_result.success ) =>
            LET n == Len(Survivors(sampled))
                c == height_result.confidence
            IN  /\ height_result.measurements_count = n
                /\ c = IF 15 * n <= 100 THEN 15 * n ELSE 100
                /\ c % 15 = 0 \/ c = 100
                /\ c >= 15
                /\ c <= 100)
    /\ [][ (height_pc = "loop" /\ height_pc' = "loop") =>
              Confidence(Len(height_measurements'))
                  >= Confidence(Len(height_measurements)) ]_vars

\* Seven candidates survived: 7 * 15 = 105 is reported as 100.
C10_Witness ==
    /\ height_pc = "done"
    /\ height_result.success
    /\ height_result.measurements_count = 7
    /\ height_result.confidence = 100

(***************************************************************************)
(* Videos that cannot be opened                                            *)
(***************************************************************************)
\* C11: a process_video call on a video that cannot be opened ends by
\* returning a failure result (success false), never by raising, and
\* without having processed a frame: the push-up processor's call does not
\* end raised, and a height call that ended without decoding a frame
\* returned a failure whose height is 0.
C11_OpenFailureReturned ==
    /\ pushup_pc # "raised"
    /\ (height_pc = "done" /\ frame_count = 0) =>
          /\ height_result # NoResult
          /\ height_result.success = FALSE
          /\ height_result.height_cm = 0
          /\ sampled = <<>>

(***************************************************************************)
(* Height: calibration against a reference image                           *)
(***************************************************************************)
CalibrationStep == calibrations' = calibrations + 1

Unmeasurable(ref) == ~ref.loaded \/ ref.face_width = 0

\* C12: a calibration whose reference image cannot be loaded or shows a
\* face of pixel width 0 returns False and leaves focal_length as it was,
\* and a process_video call given that reference returns the failure
\* 'Calibration failed' with height_cm 0 before opening the video or
\* processing a frame; with a positive pixel width w the calibration
\* succeeds and focal_length = w * known_distance / known_face_width,
\* which is positive.
C12_CalibrationFailure ==
    [][CalibrationStep =>
         IF Unmeasurable(reference')
         THEN /\ calib_ok' = FALSE
              /\ focal_length' = focal_length
              /\ calib_by' = "process_video" =>
                    /\ height_pc' = "done"
                    /\ height_result' = [success |-> FALSE,
                                         error |-> "Calibration failed",
                                         height_cm |-> 0]
                    /\ capture_tried' = FALSE
                    /\ frame_count' = 0
                    /\ sampled' = <<>>
         ELSE /\ calib_ok' = TRUE
              /\ focal_length'.num * KnownFaceWidth
                    = reference'.face_width * KnownDistance * focal_length'.den
              /\ focal_length'.den > 0
              /\ focal_length'.num > 0]_vars

\* A processor calibrated with a face 100 pixels wide, then given a
\* reference image without a face by process_video: the call failed and the
\* earlier focal length is still there.
C12_Witness ==
    /\ calib_by = "process_video"
    /\ reference = [loaded |-> TRUE, face_width |-> 0]
    /\ focal_length = FocalLength(100)
    /\ height_pc = "done"
    /\ height_result.error = "Calibration failed"

(***************************************************************************)
(* Pose landmarks within the frame                                         *)
(***************************************************************************)
InFrame(cx, cy, shape) ==
    0 <= cx /\ cx < shape[2] /\ 0 <= cy /\ cy < shape[1]

Listed(sample) == \E j \in 1..Len(lm_list) : lm_list[j] = sample

\* C13: findPosition returns a selected joint exactly when its pixel
\* coordinates satisfy 0 <= cx < width and 0 <= cy < height of the frame;
\* a joint outside is left out, and every returned sample lies within the
\* frame.
C13_JointsWithinFrame ==
    pose_pc = "found" =>
        /\ \A i \in 1..Len(pose_results) :
              (i - 1) \in pose_select =>
                  LET cx == Pixel(pose_results[i][1], pose_shape[2])
                      cy == Pixel(pose_results[i][2], pose_shape[1])
                  IN  Listed(<<i - 1, cx, cy>>) <=> InFrame(cx, cy, pose_shape)
        /\ \A j \in 1..Len(lm_list) :
              /\ lm_list[j][1] \in pose_select
              /\ InFrame(lm_list[j][2], lm_list[j][3], pose_shape)

(***************************************************************************)
(* Which decoded frames are evaluated                                      *)
(***************************************************************************)
HeightFrameStep == height_pc = "loop" /\ frame_count' = frame_count + 1

\* C14: the height pass evaluates exactly the decoded frames whose 1-based
\* index is a multiple of 5: such a frame is handed to process_image and
\* its surviving candidate kept, any other frame changes no measurement, so
\* the measurements number at most floor(frames / 5) and a video of fewer
\* than 5 frames returns the failure of a pass without measurements.  The
\* push-up pass evaluates every decoded frame in the order decoded and
\* returns total_frames = the number of frames decoded.
C14_FrameSampling ==
    /\ [](/\ Len(sampled) = frame_count \div 5
          /\ height_measurements = Survivors(sampled)
          /\ Len(height_measurements) <= frame_count \div 5
          /\ (height_pc = "done" /\ height_result.success) =>
                height_result.measurements_count <= frame_count \div 5
          /\ (height_pc = "done" /\ frame_count < 5) =>
                /\ height_result.success = FALSE
                /\ height_result.height_cm = 0
          /\ pushup_pc \in {"loop", "done"} =>
                /\ total_frames = Len(stream)
                /\ Session = FreshRun(stream)
          /\ pushup_pc = "done" =>
                pushup_result.total_frames = Len(stream))
    /\ [][HeightFrameStep =>
             IF frame_count' % 5 = 0
             THEN /\ Len(sampled') = Len(sampled) + 1
                  /\ height_measurements'
                        = height_measurements
                             \o Survivors(<<sampled'[Len(sampled')]>>)
             ELSE /\ sampled' = sampled
                  /\ height_measurements' = height_measurements]_vars

\* An 11-frame height video whose 5th and 10th frames gave the two
\* measurements returned, and a 3-frame push-up video with one repetition.
C14_Witness ==
    /\ height_pc = "done"
    /\ frame_count = 11
    /\ height_result.success
    /\ height_result.measurements_count = 2
    /\ pushup_pc = "done"
    /\ pushup_result.total_frames = 3
    /\ pushup_result.counter = 1

(***************************************************************************)
(* Uploaded files                                                          *)
(***************************************************************************)
\* The file request r saved is still in the upload folder.
FileLeft(r) == \E p \in Paths : uploads[p].owner = r

\* C16: in each of the four upload handlers, once the uploaded file is
\* saved it is removed before the handler responds, on every path, also
\* when process_video raises and the handler answers 500: no request that
\* was answered has left its file behind.
C16_UploadRemoved ==
    \A r \in Requests : req[r].pc = "responded" => ~FileLeft(r)

\* Request r is between file.save and the end of process_video.
InUse(r) == req[r].pc \in {"saved", "processing"}

\* C17: concurrent upload requests do not interfere, also when their
\* sanitized file names are equal: the processor of each request opens the
\* content this request saved, and no step removes or overwrites the file
\* of a request that is still saving or processing it.
C17_NoInterference ==
    /\ [](\A r \in Requests :
             req[r].pc \in {"processing", "processed"} =>
                 req[r].opened.owner = r)
    /\ [][\A r \in Requests :
             InUse(r) => uploads'[req[r].path] = uploads[req[r].path]]_vars

(***************************************************************************)
(* Vertical jump: the workflow of one process_video call                   *)
(***************************************************************************)
\* The handler methods in the order the workflow names them, for the
\* ground-based style (0) and for the rim-based style (any other).
StepNames(style) ==
    <<"generate_video_points", "define_joint_averages", "define_stages",
      "get_reference_values",
      IF style = 0 THEN "estimate_head_height" ELSE "estimate_rim_height",
      "calibrate_measured_height", "calculate_vertical_jump",
      "measure_descent_speed", "export_jump_info">>

\* The calls made so far are the first calls of the workflow, in order,
\* each once, all on the handler created by this call.
InWorkflowOrder ==
    /\ Len(jump_log) <= Len(StepNames(jump_args.jump_style))
    /\ \A i \in 1..Len(jump_log) :
          /\ jump_log[i][1] = jump_handler
          /\ jump_log[i][2] = StepNames(jump_args.jump_style)[i]
          /\ jump_log[i][3] = IF jump_log[i][2] = "calibrate_measured_height"
                              THEN <<0, 0, 0>> ELSE <<>>

\* C15: one process_video call runs, on the one CalibrationHandler it
\* created, generate_video_points, define_joint_averages, define_stages,
\* get_reference_values, estimate_head_height (jump_style 0) or
\* estimate_rim_height (otherwise), calibrate_measured_height(0,0,0),
\* calculate_vertical_jump, measure_descent_speed and export_jump_info in
\* this order, each at most once; a result is returned only after all nine
\* completed, and once a step has failed no later step runs, nothing is
\* returned and nothing is retried.
C15_WorkflowAllOrNothing ==
    /\ [](/\ InWorkflowOrder
          /\ jump_pc = "returned" =>
                /\ Len(jump_log) = Len(StepNames(jump_args.jump_style))
                /\ jump_result # NoResult
                /\ jump_result.handler = jump_handler
          /\ jump_pc # "returned" => jump_result = NoResult
          /\ jump_fault => jump_pc = "raised")
    /\ [][jump_fault =>
             \/ jump_log' = jump_log /\ jump_result' = jump_result
             \/ jump_log' = <<>> /\ jump_handler' >= jump_handler]_vars

\* A rim-based call that returned after all nine calls, and then a call
\* whose calculate_vertical_jump raised.
C15_Witness ==
    /\ jump_handler = 2
    /\ jump_args.jump_style = 1
    /\ jump_pc = "raised"
    /\ Len(jump_log) = 7
    /\ jump_log[5][2] = "estimate_rim_height"

====
